---- MODULE Spec2Model ----
(***************************************************************************)
(* Model of src/app.py: the Streamlit script (lines 162-204), process      *)
(* (lines 42-111), geocode_address_nominatim (lines 23-34) and the cache   *)
(* file (lines 12-20).                                                     *)
(*                                                                         *)
(* One behaviour is a sequence of script runs over one uploaded            *)
(* spreadsheet.  The durable cache file survives from run to run; every    *)
(* other variable is in-memory state of one run.                           *)
(*                                                                         *)
(* Abstractions, each local to the definition that makes it:               *)
(*   - a coordinate pair is one natural number and geodesic() the absolute *)
(*     difference, so distances are comparable and can tie;                *)
(*   - an address string is the sequence of its comma-separated parts;     *)
(*   - a DataFrame is a sequence of rows, each carrying its index label;   *)
(*   - DISTRICT is read by app.py:62 and app.py:89 but bound nowhere in    *)
(*     app.py; it is taken to be bound to a fixed string.                  *)
(***************************************************************************)
EXTENDS Integers, Sequences, FiniteSets, TLC

VARIABLES
    rows,               \* the uploaded spreadsheet's rows (df, app.py:43)
    columns,            \* df.columns
    file,               \* geo_cache.json: address -> coords (<<>> when absent)
    torn,               \* geo_cache.json is opened for writing and not yet written
    pc,                 \* position of the script
    user_location,      \* st.text_input of app.py:166, split at its commas
    user_coords,        \* app.py:172 / app.py:194
    priority_text,      \* the category priority the user has to give, app.py:175
    category_priority,  \* app.py:175-177 / app.py:195
    uiCache,            \* the script's cache, app.py:171
    cache,              \* process's cache, app.py:50
    distances,          \* app.py:58
    missing_rows,       \* app.py:59
    missing_distances,  \* app.py:86
    location,           \* what geolocator.geocode answered in the last resolve
    coords,             \* what the last resolve returned
    df_valid_sorted,    \* app.py:81-82
    df_missing_sorted,  \* app.py:100-101
    final_df,           \* app.py:104
    result,             \* how the run ended
    invoked,            \* process was called in this run
    calls,              \* addresses handed to geolocator.geocode in this run
    attempts,           \* the resolves of this run: address, outcome, position
    sleeps,             \* number of sleep(1) taken in this run
    unpaced             \* an external call was issued and no sleep(1) since

vars == <<rows, columns, file, torn, pc, user_location, user_coords, priority_text,
          category_priority,
          uiCache, cache, distances, missing_rows, missing_distances, location,
          coords, df_valid_sorted, df_missing_sorted, final_df, result, invoked,
          calls, attempts, sleeps, unpaced>>

-----------------------------------------------------------------------------
(* Bounds of the model *)

MaxRows == 2
MaxCoord == 1

-----------------------------------------------------------------------------
(* Values *)

\* None as returned by geocode_address_nominatim (app.py:34)
NoCoords == -1
\* None as appended to the distance lists (app.py:69, app.py:95); NaN in df
NoDist == -1
\* geolocator.geocode returned None (app.py:27-28)
NoResult == -1
\* geolocator.geocode raised, timeout included (app.py:32)
Raised == -2
\* geolocator.geocode was not called: the address was cached (app.py:24-25)
NotCalled == -3

Coords == 0..MaxCoord
Responses == Coords \cup {NoResult, Raised}

DISTRICT == "District"
REGION == "Andhra Pradesh"

RequiredColumns == {"School", "Mandal", "Category"}
ColumnSets == {RequiredColumns, {"School", "Mandal"}, {"School", "Category"}}

DefaultPriority == <<4, 3, 2, 1>>

\* the spreadsheets' rows
RowTypes ==
    { [School |-> "A", Mandal |-> "M1", Category |-> 4],
      [School |-> "B", Mandal |-> "M1", Category |-> 3],
      [School |-> "C", Mandal |-> "M2", Category |-> 4],
      [School |-> "D", Mandal |-> "M2", Category |-> 5] }

Tables == UNION { [1..n -> RowTypes] : n \in 0..MaxRows }

\* geo_cache.json before the first run: absent, or left by an earlier use of the
\* tool on another spreadsheet
InitialFiles == { <<>>, (<<"A", "M1", DISTRICT, REGION>> :> 0) }

\* what the user types at app.py:166 ("" selects the coordinate inputs)
UserLocations == { <<"X">>, <<"A", "M1", DISTRICT>> }

\* what the user types at app.py:175, split at whitespace
PriorityTexts == { <<>>, <<"3", "4">>, <<"4">> }

-----------------------------------------------------------------------------
(* Pure functions *)

\* int() on one token of the priority text
int(tok) ==
    CASE tok = "1" -> 1
      [] tok = "2" -> 2
      [] tok = "3" -> 3
      [] tok = "4" -> 4
      [] tok = "5" -> 5

parse_priority(text) ==
    LET parsed == [i \in 1..Len(text) |-> int(text[i])]
    IN  IF parsed = <<>> THEN DefaultPriority ELSE parsed

\* a test that takes None for a location
truthy_always(c) == c = c

\* truthiness of a resolve's return value (a tuple, or None)
truthy(c) == c # NoCoords

geodesic(a, b) == IF a > b THEN a - b ELSE b - a

load_cache(f) == f

full_address(row) == <<row.School, row.Mandal, DISTRICT, REGION>>

mandal_address(row) == <<row.Mandal, DISTRICT, REGION>>

user_address(loc) == loc \o <<REGION>>

\* a resolve that asks the service without looking into the cache
geocode_without_lookup(address, c, loc) ==
    IF loc \in Coords
    THEN [address |-> address, coords |-> loc, cache |-> (address :> loc) @@ c,
          location |-> loc, raised |-> FALSE]
    ELSE [address |-> address, coords |-> NoCoords, cache |-> c,
          location |-> loc, raised |-> FALSE]

\* a resolve without the try/except of app.py:26-33
geocode_propagating(address, c, loc) ==
    IF address \in DOMAIN c
    THEN [address |-> address, coords |-> c[address], cache |-> c,
          location |-> NotCalled, raised |-> FALSE]
    ELSE IF loc \in Coords
         THEN [address |-> address, coords |-> loc, cache |-> (address :> loc) @@ c,
               location |-> loc, raised |-> FALSE]
         ELSE [address |-> address, coords |-> NoCoords, cache |-> c,
               location |-> loc, raised |-> (loc = Raised)]

\* a resolve that binds the cache to a new dict of the one address it found
geocode_replacing(address, c, loc) ==
    IF address \in DOMAIN c
    THEN [address |-> address, coords |-> c[address], cache |-> c,
          location |-> NotCalled, raised |-> FALSE]
    ELSE IF loc \in Coords
         THEN [address |-> address, coords |-> loc, cache |-> (address :> loc),
               location |-> loc, raised |-> FALSE]
         ELSE [address |-> address, coords |-> NoCoords, cache |-> c,
               location |-> loc, raised |-> FALSE]

\* a resolve without the cache write of app.py:29
geocode_forgetting(address, c, loc) ==
    IF address \in DOMAIN c
    THEN [address |-> address, coords |-> c[address], cache |-> c,
          location |-> NotCalled, raised |-> FALSE]
    ELSE IF loc \in Coords
         THEN [address |-> address, coords |-> loc, cache |-> c,
               location |-> loc, raised |-> FALSE]
         ELSE [address |-> address, coords |-> NoCoords, cache |-> c,
               location |-> loc, raised |-> FALSE]

\* The resolve: loc is what geolocator.geocode answers if it is asked.
geocode_address_nominatim(address, c, loc) ==
    IF address \in DOMAIN c
    THEN [address |-> address, coords |-> c[address], cache |-> c,
          location |-> NotCalled, raised |-> FALSE]
    ELSE IF loc \in Coords
         THEN [address |-> address, coords |-> loc, cache |-> (address :> loc) @@ c,
               location |-> loc, raised |-> FALSE]
         ELSE [address |-> address, coords |-> NoCoords, cache |-> c,
               location |-> loc, raised |-> FALSE]

\* any() where app.py:45 has all()
has_some_required_column(cols) == RequiredColumns \cap cols # {}

has_required_columns(cols) == RequiredColumns \subseteq cols

\* list.index(c), 0-based; ValueError when c is not in the list
ValueError == -1
\* a lookup that ranks an unknown category behind the known ones
index_or_end(list, c) ==
    IF \E i \in 1..Len(list) : list[i] = c
    THEN (CHOOSE i \in 1..Len(list) :
             list[i] = c /\ \A k \in 1..(i - 1) : list[k] # c) - 1
    ELSE Len(list)

index(list, c) ==
    IF \E i \in 1..Len(list) : list[i] = c
    THEN (CHOOSE i \in 1..Len(list) :
             list[i] = c /\ \A k \in 1..(i - 1) : list[k] # c) - 1
    ELSE ValueError

-----------------------------------------------------------------------------
(* State *)

\* the in-memory state of a run that has done nothing yet
Fresh ==
    /\ cache' = <<>>
    /\ distances' = <<>>
    /\ missing_rows' = <<>>
    /\ missing_distances' = <<>>
    /\ location' = NotCalled
    /\ coords' = NoCoords
    /\ df_valid_sorted' = <<>>
    /\ df_missing_sorted' = <<>>
    /\ final_df' = <<>>
    /\ calls' = <<>>
    /\ attempts' = <<>>
    /\ sleeps' = 0
    /\ unpaced' = FALSE

Init ==
    /\ rows \in Tables
    /\ columns \in ColumnSets
    /\ file \in InitialFiles
    /\ torn = FALSE
    /\ pc = "idle"
    /\ user_location = <<>>
    /\ user_coords = NoCoords
    /\ priority_text = <<>>
    /\ category_priority = <<>>
    /\ uiCache = <<>>
    /\ cache = <<>>
    /\ distances = <<>>
    /\ missing_rows = <<>>
    /\ missing_distances = <<>>
    /\ location = NotCalled
    /\ coords = NoCoords
    /\ df_valid_sorted = <<>>
    /\ df_missing_sorted = <<>>
    /\ final_df = <<>>
    /\ result = "running"
    /\ invoked = FALSE
    /\ calls = <<>>
    /\ attempts = <<>>
    /\ sleeps = 0
    /\ unpaced = FALSE

-----------------------------------------------------------------------------
(* DataFrame operations of process *)

\* df after app.py:73: every row with its index label and its Distance_km
with_distances(table, dists) ==
    [i \in 1..Len(table) |->
        [idx |-> i - 1, School |-> table[i].School, Mandal |-> table[i].Mandal,
         Category |-> table[i].Category, Distance_km |-> dists[i]]]

\* df.dropna(subset=["Distance_km"]), app.py:76
IsValid(r) == r.Distance_km # NoDist
dropna(df) == SelectSeq(df, IsValid)

\* df.loc[labels], app.py:77: the rows of these labels, in the labels' order
loc_rows(df, labels) == [k \in 1..Len(labels) |-> df[labels[k] + 1]]

\* df['Distance_km'] = values, app.py:98: by position
set_distances(df, values) ==
    [k \in 1..Len(df) |-> [df[k] EXCEPT !.Distance_km = values[k]]]

\* df['Category'].apply(lambda c: category_priority.index(c)) raises
apply_raises(df, prio) == \E k \in 1..Len(df) : index(prio, df[k].Category) = ValueError

\* the sort key of sort_values(by=["PriorityIndex", "Distance_km"]): missing
\* distances last (na_position="last") among the rows of one PriorityIndex
\* a comparison of the raw values, the missing distance being the smallest
dist_before_raw(d1, d2) == d1 < d2

DistBefore(d1, d2) == d1 # NoDist /\ (d2 = NoDist \/ d1 < d2)

\* a comparison that also holds of two rows with equal keys
key_before_or_equal(r1, r2, prio) ==
    LET p1 == index(prio, r1.Category)
        p2 == index(prio, r2.Category)
    IN  p1 < p2 \/ (p1 = p2 /\ ~DistBefore(r2.Distance_km, r1.Distance_km))

KeyBefore(r1, r2, prio) ==
    LET p1 == index(prio, r1.Category)
        p2 == index(prio, r2.Category)
    IN  p1 < p2 \/ (p1 = p2 /\ DistBefore(r1.Distance_km, r2.Distance_km))

\* r goes in front of the rows of its own key: an unstable sort
insert_before_equal(sorted, r, prio) ==
    LET after == { k \in 1..Len(sorted) : ~KeyBefore(sorted[k], r, prio) }
        pos == IF after = {} THEN Len(sorted) + 1
               ELSE CHOOSE k \in after : \A m \in after : k <= m
    IN  SubSeq(sorted, 1, pos - 1) \o <<r>> \o SubSeq(sorted, pos, Len(sorted))

\* r goes behind every row that does not come strictly after it: the sort of
\* several keys is a stable one
insert_sorted(sorted, r, prio) ==
    LET after == { k \in 1..Len(sorted) : KeyBefore(r, sorted[k], prio) }
        pos == IF after = {} THEN Len(sorted) + 1
               ELSE CHOOSE k \in after : \A m \in after : k <= m
    IN  SubSeq(sorted, 1, pos - 1) \o <<r>> \o SubSeq(sorted, pos, Len(sorted))

RECURSIVE sort_prefix(_, _, _)
sort_prefix(df, n, prio) ==
    IF n = 0 THEN <<>>
    ELSE insert_sorted(sort_prefix(df, n - 1, prio), df[n], prio)

sort_values(df, prio) == sort_prefix(df, Len(df), prio)

\* pd.concat([a, b], ignore_index=True), app.py:104: the index labels are dropped
strip(r) == [School |-> r.School, Mandal |-> r.Mandal, Category |-> r.Category,
             Distance_km |-> r.Distance_km]

\* the two blocks joined and drop_duplicates() applied: a row equal to an earlier
\* row of the joined table is left out
concat_distinct(a, b) ==
    LET joined == [k \in 1..(Len(a) + Len(b)) |->
                      IF k <= Len(a) THEN strip(a[k]) ELSE strip(b[k - Len(a)])]
        kept == { k \in 1..Len(joined) : \A m \in 1..(k - 1) : joined[m] # joined[k] }
    IN  [n \in 1..Cardinality(kept) |->
            joined[CHOOSE k \in kept : Cardinality({ m \in kept : m < k }) = n - 1]]

\* the two blocks joined the other way round
concat_swapped(a, b) ==
    [k \in 1..(Len(a) + Len(b)) |->
        IF k <= Len(b) THEN strip(b[k]) ELSE strip(a[k - Len(b)])]

concat(a, b) == [k \in 1..(Len(a) + Len(b)) |->
                    IF k <= Len(a) THEN strip(a[k]) ELSE strip(b[k - Len(a)])]

-----------------------------------------------------------------------------
(* The script, app.py:164-204 *)

\* how a resolve ended: from the cache, by a lookup that found the address, or
\* by a lookup that raised or found nothing
Outcome(r) ==
    IF r.location = NotCalled THEN "hit"
    ELSE IF truthy(r.coords) THEN "found" ELSE "failed"

\* the ghost variables of a resolve that answered r
Observed(r) ==
    /\ location' = r.location
    /\ coords' = r.coords
    /\ calls' = IF r.location = NotCalled THEN calls ELSE Append(calls, r.address)
    /\ attempts' = Append(attempts, [address |-> r.address, outcome |-> Outcome(r),
                                      at |-> pc])
    /\ unpaced' = (unpaced \/ r.location # NotCalled)

\* a resolve let an exception through: the script run dies
Dies ==
    /\ pc' = "done"
    /\ result' = "Exception"

\* json.load of a file that is not a whole JSON document raises: the run dies
LoadFails ==
    /\ pc' = "crashed"
    /\ result' = "JSONDecodeError"

\* a script run is over and the session waits for the next one, which starts
\* the script from its top with nothing of the last run in memory
Rerun ==
    /\ pc \in {"done", "crashed"}
    /\ pc' = "idle"
    /\ user_location' = <<>>
    /\ user_coords' = NoCoords
    /\ priority_text' = <<>>
    /\ category_priority' = <<>>
    /\ uiCache' = <<>>
    /\ invoked' = FALSE
    /\ result' = "running"
    /\ Fresh
    /\ UNCHANGED <<rows, columns, file, torn>>

\* app.py:166-171: a location was typed; the script loads its own cache
StartText ==
    /\ pc = "idle"
    /\ \E loc \in UserLocations : user_location' = loc
    /\ uiCache' = load_cache(file)
    /\ user_coords' = NoCoords
    /\ \E text \in PriorityTexts : priority_text' = text
    /\ category_priority' = <<>>
    /\ invoked' = FALSE
    /\ Fresh
    /\ IF torn
       THEN LoadFails
       ELSE pc' = "ui_geocode" /\ result' = "running"
    /\ UNCHANGED <<rows, columns, file, torn>>

\* app.py:172-178, 187-188: resolve the typed location, then call process or stop
UiGeocode ==
    /\ pc = "ui_geocode"
    /\ \E loc \in Responses :
        LET r == geocode_address_nominatim(user_address(user_location), uiCache, loc)
        IN  /\ uiCache' = r.cache
            /\ user_coords' = r.coords
            /\ Observed(r)
            /\ IF r.raised
               THEN Dies /\ UNCHANGED <<category_priority, invoked>>
               ELSE IF truthy(r.coords)
               THEN /\ category_priority' = parse_priority(priority_text)
                    /\ invoked' = TRUE
                    /\ pc' = "process"
                    /\ UNCHANGED result
               ELSE /\ pc' = "done"
                    /\ result' = "UserLocationError"
                    /\ UNCHANGED <<category_priority, invoked>>
    /\ UNCHANGED <<rows, columns, priority_text, file, torn, user_location, cache, distances, missing_rows,
                   missing_distances, df_valid_sorted, df_missing_sorted, final_df,
                   sleeps>>

\* app.py:189-196: no location typed; coordinates are entered and process is called
StartCoordinates ==
    /\ pc = "idle"
    /\ user_location' = <<>>
    /\ uiCache' = <<>>
    /\ \E latlon \in Coords : user_coords' = latlon
    /\ \E text \in PriorityTexts : priority_text' = text
    /\ category_priority' = DefaultPriority
    /\ invoked' = TRUE
    /\ Fresh
    /\ result' = "running"
    /\ pc' = "process"
    /\ UNCHANGED <<rows, columns, file, torn>>

-----------------------------------------------------------------------------
(* process, app.py:42-111 *)

save_cache(c) == c

\* app.py:43-57: the column check, load_cache, the user_coords check
ProcessStart ==
    /\ pc = "process"
    /\ IF ~has_required_columns(columns)
       THEN /\ pc' = "done"
            /\ result' = "InputError"
            /\ UNCHANGED cache
       ELSE /\ cache' = load_cache(file)
            /\ IF torn
               THEN LoadFails
               ELSE IF ~truthy(user_coords)
               THEN pc' = "done" /\ result' = "UserLocationError"
               ELSE pc' = "full_loop" /\ UNCHANGED result
    /\ UNCHANGED <<rows, columns, priority_text, file, torn, user_location, user_coords, category_priority,
                   uiCache, distances, missing_rows, missing_distances, location,
                   coords, df_valid_sorted, df_missing_sorted, final_df, invoked,
                   calls, attempts, sleeps, unpaced>>

\* app.py:61-63: the next row's full address is resolved
FullGeocode ==
    /\ pc = "full_loop"
    /\ Len(distances) < Len(rows)
    /\ \E loc \in Responses :
        LET row == rows[Len(distances) + 1]
            r == geocode_address_nominatim(full_address(row), cache, loc)
        IN  /\ cache' = r.cache
            /\ Observed(r)
            /\ IF r.raised
               THEN Dies
               ELSE pc' = "full_sleep" /\ UNCHANGED result
    /\ UNCHANGED <<rows, columns, priority_text, file, torn, user_location, user_coords, category_priority,
                   uiCache, distances, missing_rows, missing_distances,
                   df_valid_sorted, df_missing_sorted, final_df, invoked, sleeps>>

\* app.py:64-70: sleep(1), then the row's distance or its index among the missing
FullSleep ==
    /\ pc = "full_sleep"
    /\ sleeps' = sleeps + 1
    /\ unpaced' = FALSE
    /\ IF truthy(coords)
       THEN /\ distances' = Append(distances, geodesic(user_coords, coords))
            /\ UNCHANGED missing_rows
       ELSE /\ distances' = Append(distances, NoDist)
            /\ missing_rows' = Append(missing_rows, Len(distances))
    /\ location' = NotCalled
    /\ pc' = "full_loop"
    /\ UNCHANGED <<rows, columns, priority_text, file, torn, user_location, user_coords, category_priority,
                   uiCache, cache, missing_distances, coords, df_valid_sorted,
                   df_missing_sorted, final_df, result, invoked, calls, attempts>>

\* app.py:72, app.py:19: the first loop is over and save_cache opens the file
\* with mode "w", which empties it
SaveOpen ==
    /\ pc = "full_loop"
    /\ Len(distances) = Len(rows)
    /\ file' = <<>>
    /\ torn' = TRUE
    /\ pc' = "save_dump"
    /\ UNCHANGED <<rows, columns, priority_text, user_location, user_coords, category_priority,
                   uiCache, cache, distances, missing_rows, missing_distances,
                   location, coords, df_valid_sorted, df_missing_sorted, final_df,
                   result, invoked, calls, attempts, sleeps, unpaced>>

\* app.py:20: json.dump writes the cache and the file is closed
SaveCache ==
    /\ pc = "save_dump"
    /\ file' = save_cache(cache)
    /\ torn' = FALSE
    /\ pc' = "rank_valid"
    /\ UNCHANGED <<rows, columns, priority_text, user_location, user_coords, category_priority,
                   uiCache, cache, distances, missing_rows, missing_distances,
                   location, coords, df_valid_sorted, df_missing_sorted, final_df,
                   result, invoked, calls, attempts, sleeps, unpaced>>

\* app.py:20: the write fails (OSError) or the process is stopped during it;
\* nothing restores what the file held
SaveFails ==
    /\ pc = "save_dump"
    /\ pc' = "crashed"
    /\ result' = "OSError"
    /\ UNCHANGED <<rows, columns, priority_text, file, torn, user_location, user_coords,
                   category_priority, uiCache, cache, distances, missing_rows,
                   missing_distances, location, coords, df_valid_sorted,
                   df_missing_sorted, final_df, invoked, calls, attempts, sleeps, unpaced>>

\* app.py:73-82: the rows with a distance are ranked and sorted
RankValid ==
    /\ pc = "rank_valid"
    /\ LET df_valid == dropna(with_distances(rows, distances))
       IN  IF apply_raises(df_valid, category_priority)
           THEN /\ pc' = "done"
                /\ result' = "ValueError"
                /\ UNCHANGED df_valid_sorted
           ELSE /\ df_valid_sorted' = sort_values(df_valid, category_priority)
                /\ pc' = "mandal_loop"
                /\ UNCHANGED result
    /\ UNCHANGED <<rows, columns, priority_text, file, torn, user_location, user_coords, category_priority,
                   uiCache, cache, distances, missing_rows, missing_distances,
                   location, coords, df_missing_sorted, final_df, invoked, calls, attempts,
                   sleeps, unpaced>>

\* df.iloc where app.py:77 has df.loc: the k-th row of the spreadsheet
next_missing_iloc(table, labels, k) == table[k]

\* the k-th row of df_missing.iterrows(), app.py:88
next_missing(table, labels, k) == table[labels[k] + 1]

\* app.py:88-90: the next missing row's Mandal address is resolved
MandalGeocode ==
    /\ pc = "mandal_loop"
    /\ Len(missing_distances) < Len(missing_rows)
    /\ \E loc \in Responses :
        LET row == next_missing(rows, missing_rows, Len(missing_distances) + 1)
            r == geocode_address_nominatim(mandal_address(row), cache, loc)
        IN  /\ cache' = r.cache
            /\ Observed(r)
            /\ IF r.raised
               THEN Dies
               ELSE pc' = "mandal_sleep" /\ UNCHANGED result
    /\ UNCHANGED <<rows, columns, priority_text, file, torn, user_location, user_coords, category_priority,
                   uiCache, distances, missing_rows, missing_distances,
                   df_valid_sorted, df_missing_sorted, final_df, invoked, sleeps>>

\* app.py:91-96: sleep(1), then the row's Mandal distance or None
MandalSleep ==
    /\ pc = "mandal_sleep"
    /\ sleeps' = sleeps + 1
    /\ unpaced' = FALSE
    /\ missing_distances' =
          Append(missing_distances,
                 IF truthy(coords) THEN geodesic(user_coords, coords) ELSE NoDist)
    /\ location' = NotCalled
    /\ pc' = "mandal_loop"
    /\ UNCHANGED <<rows, columns, priority_text, file, torn, user_location, user_coords, category_priority,
                   uiCache, cache, distances, missing_rows, coords, df_valid_sorted,
                   df_missing_sorted, final_df, result, invoked, calls, attempts>>

\* app.py:98-111: the missing rows are ranked and sorted, the two blocks joined
RankMissing ==
    /\ pc = "mandal_loop"
    /\ Len(missing_distances) = Len(missing_rows)
    /\ LET df == with_distances(rows, distances)
           df_missing == set_distances(loc_rows(df, missing_rows), missing_distances)
       IN  IF apply_raises(df_missing, category_priority)
           THEN /\ result' = "ValueError"
                /\ UNCHANGED <<df_missing_sorted, final_df>>
           ELSE /\ df_missing_sorted' = sort_values(df_missing, category_priority)
                /\ final_df' = concat(df_valid_sorted, df_missing_sorted')
                /\ result' = "table"
    /\ pc' = "done"
    /\ UNCHANGED <<rows, columns, priority_text, file, torn, user_location, user_coords, category_priority,
                   uiCache, cache, distances, missing_rows, missing_distances,
                   location, coords, df_valid_sorted, invoked, calls, attempts, sleeps, unpaced>>

-----------------------------------------------------------------------------

Next ==
    \/ Rerun
    \/ StartText
    \/ UiGeocode
    \/ StartCoordinates
    \/ ProcessStart
    \/ FullGeocode
    \/ FullSleep
    \/ SaveOpen
    \/ SaveCache
    \/ SaveFails
    \/ RankValid
    \/ MandalGeocode
    \/ MandalSleep
    \/ RankMissing

Spec == Init /\ [][Next]_vars

-----------------------------------------------------------------------------
(* Properties *)

\* a resolve is the next step of the script
Resolving ==
    \/ pc = "ui_geocode"
    \/ pc = "full_loop" /\ Len(distances) < Len(rows)
    \/ pc = "mandal_loop" /\ Len(missing_distances) < Len(missing_rows)

\* the address and the cache that resolve is given
CurAddress ==
    CASE pc = "ui_geocode" -> user_address(user_location)
      [] pc = "full_loop" -> full_address(rows[Len(distances) + 1])
      [] pc = "mandal_loop" ->
            mandal_address(rows[missing_rows[Len(missing_distances) + 1] + 1])

CurCache == IF pc = "ui_geocode" THEN uiCache ELSE cache

CachesUnchanged == uiCache' = uiCache /\ cache' = cache

Finished == pc = "done" /\ result = "table"

\* the rank of a category: its 0-based position in the priority list
Rank(c) == Cardinality({ k \in 1..Len(category_priority) :
                            \A m \in 1..k : category_priority[m] # c })

Known(c) == \E k \in 1..Len(category_priority) : category_priority[k] = c

\* C1: a resolve of an address that is a key of the cache it is given returns the
\* cached coordinates, hands nothing to geolocator.geocode and leaves the cache
\* (and the cache file) as they were.
C1_CachedResolve ==
    [][ (Resolving /\ CurAddress \in DOMAIN CurCache)
          => /\ coords' = CurCache[CurAddress]
             /\ calls' = calls
             /\ CachesUnchanged
             /\ file' = file ]_vars

\* C1 witness: the cache file held the address of two equal rows, the second of
\* them has just been resolved and nothing was asked of the service in this run.
C1_Witness ==
    /\ pc = "full_sleep"
    /\ Len(distances) = 1
    /\ Len(rows) >= 2
    /\ rows[1] = rows[2]
    /\ full_address(rows[1]) \in DOMAIN file
    /\ DOMAIN cache = DOMAIN file
    /\ location = NotCalled
    /\ calls = <<>>

\* C2 (as claimed): no address is handed to geolocator.geocode while an earlier
\* external call of the run has not been followed by a sleep(1).
C2_PacedCalls ==
    [][ Len(calls') = Len(calls) + 1 => ~unpaced ]_vars

\* C3 (as claimed): when process has completed, every entry of the in-memory
\* caches of the run is in the cache file.
C3_AllPersisted ==
    Finished =>
        /\ \A a \in DOMAIN cache : a \in DOMAIN file /\ file[a] = cache[a]
        /\ \A a \in DOMAIN uiCache : a \in DOMAIN file /\ file[a] = uiCache[a]

\* C4: a resolve of an address that is not cached, whose external call raises or
\* answers nothing, returns None, lets no exception through and leaves the caches
\* as they were; in process the loop goes on, so a run that gets to its ranking
\* has handled every row of the first pass, and a run that returns a table every
\* row of the second.
C4_FailedResolve ==
    /\ [][ (Resolving /\ CurAddress \notin DOMAIN CurCache
               /\ location' \in {NoResult, Raised})
             => /\ coords' = NoCoords
                /\ CachesUnchanged
                /\ result' # "Exception"
                /\ (pc = "full_loop" => pc' = "full_sleep")
                /\ (pc = "mandal_loop" => pc' = "mandal_sleep") ]_vars
    /\ [](result \in {"table", "ValueError"} => Len(distances) = Len(rows))
    /\ [](result = "table" => Len(missing_distances) = Len(missing_rows))

\* C4 witness: the first row failed at both tiers, the second row was handled
\* after it, and the run returned its table.
C4_Witness ==
    /\ Finished
    /\ Len(rows) = 2
    /\ missing_rows = <<0>>
    /\ missing_distances = <<NoDist>>
    /\ distances[2] # NoDist

\* C5: in the output table the rows whose full address resolved come first, in
\* the order of the first block, and the rows whose full address failed follow,
\* in the order of the second block; a row of the second block has the distance
\* its Mandal resolve gave it, which is the distance to the Mandal's coordinates
\* when that resolve found them.
C5_BlocksInOrder ==
    Finished =>
        LET nv == Len(df_valid_sorted)
            nm == Len(df_missing_sorted)
        IN  /\ Len(final_df) = Len(rows)
            /\ nv + nm = Len(rows)
            /\ nm = Len(missing_rows)
            /\ \A k \in 1..nv :
                  /\ \A m \in 1..Len(missing_rows) :
                        missing_rows[m] # df_valid_sorted[k].idx
                  /\ final_df[k].Distance_km # NoDist
                  /\ final_df[k].Distance_km = distances[df_valid_sorted[k].idx + 1]
                  /\ final_df[k].School = rows[df_valid_sorted[k].idx + 1].School
            /\ \A k \in 1..nm :
                  \E m \in 1..Len(missing_rows) :
                      /\ missing_rows[m] = df_missing_sorted[k].idx
                      /\ final_df[nv + k].School = rows[missing_rows[m] + 1].School
                      /\ final_df[nv + k].Mandal = rows[missing_rows[m] + 1].Mandal
                      /\ final_df[nv + k].Distance_km = missing_distances[m]
                      /\ missing_distances[m] # NoDist =>
                            /\ mandal_address(rows[missing_rows[m] + 1]) \in DOMAIN cache
                            /\ missing_distances[m] =
                                  geodesic(user_coords,
                                           cache[mandal_address(rows[missing_rows[m] + 1])])

\* C5 witness: a row of the second block has a Mandal distance, a better rank
\* and a smaller distance than a row of the first block, and still follows it.
C5_Witness ==
    /\ Finished
    /\ Len(df_valid_sorted) = 1
    /\ Len(df_missing_sorted) = 1
    /\ df_missing_sorted[1].idx = 0
    /\ final_df[2].Distance_km # NoDist
    /\ final_df[2].Distance_km < final_df[1].Distance_km
    /\ Rank(final_df[2].Category) < Rank(final_df[1].Category)

\* rows i < j of one block are in order: by rank, then by distance, a missing
\* distance behind every distance of the same rank
InOrder(block) ==
    \A i, j \in 1..Len(block) :
        i < j =>
            LET ri == Rank(block[i].Category)
                rj == Rank(block[j].Category)
                di == block[i].Distance_km
                dj == block[j].Distance_km
            IN  \/ ri < rj
                \/ /\ ri = rj
                   /\ \/ dj = NoDist
                      \/ di # NoDist /\ di <= dj

\* C6: each block of the output is ordered by priority rank ascending, then by
\* distance ascending, the rows with a missing distance behind the rows of their
\* rank that have one.
C6_SortedBlocks ==
    /\ InOrder(df_valid_sorted)
    /\ InOrder(df_missing_sorted)
    /\ Finished =>
          /\ InOrder(SubSeq(final_df, 1, Len(df_valid_sorted)))
          /\ InOrder(SubSeq(final_df, Len(df_valid_sorted) + 1, Len(final_df)))

\* C6 witness: the second block holds two rows of one rank; the one that came
\* first in the spreadsheet has no distance and was sorted behind the other.
C6_Witness ==
    /\ Finished
    /\ Len(df_missing_sorted) = 2
    /\ df_missing_sorted[1].idx = 1
    /\ df_missing_sorted[1].Distance_km # NoDist
    /\ df_missing_sorted[2].Distance_km = NoDist
    /\ Rank(df_missing_sorted[1].Category) = Rank(df_missing_sorted[2].Category)

\* C7 (as claimed): a sleep(1) is taken only after a resolve that handed its
\* address to geolocator.geocode.
C7_DelayOnlyAfterCall ==
    [][ sleeps' = sleeps + 1 => location # NotCalled ]_vars

\* C8: a run of process on a spreadsheet that has its columns and a row whose
\* category is not in the priority list ends with the ValueError of list.index
\* and with no output table; no table is ever returned for such a spreadsheet.
C8_UnknownCategoryFails ==
    LET unknown == \E i \in 1..Len(rows) : ~Known(rows[i].Category)
    IN  /\ (result = "table" => ~unknown)
        /\ (pc = "done" /\ invoked /\ RequiredColumns \subseteq columns /\ unknown)
              => (result = "ValueError" /\ final_df = <<>>)

\* C8 witness: the row of the unknown category failed its full address, so the
\* run got through the Mandal pass and ended in the ValueError of app.py:99.
C8_Witness ==
    /\ pc = "done"
    /\ result = "ValueError"
    /\ Len(rows) = 2
    /\ missing_rows = <<1>>
    /\ ~Known(rows[2].Category)
    /\ Len(missing_distances) = 1
    /\ Len(df_valid_sorted) = 1

\* C9: on a spreadsheet that lacks a required column, the step of process ends
\* the run with the input error and no table, resolves nothing, takes no sleep
\* and leaves the cache and the cache file as they were; no state of such a run
\* is in one of the two loops.
C9_MissingColumns ==
    /\ [][ (pc = "process" /\ ~(RequiredColumns \subseteq columns))
             => /\ pc' = "done"
                /\ result' = "InputError"
                /\ final_df' = <<>>
                /\ calls' = calls
                /\ sleeps' = sleeps
                /\ distances' = <<>>
                /\ cache' = cache
                /\ file' = file ]_vars
    /\ [](~(RequiredColumns \subseteq columns)
             => /\ pc \notin {"full_loop", "full_sleep", "rank_valid",
                              "mandal_loop", "mandal_sleep"}
                /\ sleeps = 0
                /\ cache = <<>>
                /\ file \in InitialFiles)

\* C9 witness: a run on a spreadsheet with rows and without a required column
\* has ended in the input error, a cache file being there.
C9_Witness ==
    /\ pc = "done"
    /\ result = "InputError"
    /\ Len(rows) = 2
    /\ invoked
    /\ user_location = <<>>
    /\ file # <<>>

\* C10: process is only ever invoked with coordinates; a run whose typed
\* location did not resolve has ended without invoking process, with the
\* location error, no table, no row resolved, no sleep taken, and the cache file
\* as the script loaded it.
C10_UserLocationHalts ==
    /\ invoked => user_coords # NoCoords
    /\ (pc = "done" /\ user_location # <<>> /\ user_coords = NoCoords)
          => /\ result = "UserLocationError"
             /\ final_df = <<>>
             /\ distances = <<>>
             /\ missing_distances = <<>>
             /\ cache = <<>>
             /\ sleeps = 0
             /\ Len(calls) = 1
             /\ file = uiCache

\* C10 witness: the typed location did not resolve in a run on a spreadsheet
\* that has its columns and rows, with a cache file written by an earlier run.
C10_Witness ==
    /\ pc = "done"
    /\ result = "UserLocationError"
    /\ ~invoked
    /\ Len(rows) = 2
    /\ RequiredColumns \subseteq columns
    /\ file # <<>>
    /\ calls = <<user_address(user_location)>>

\* C11 (as claimed): a cache file that holds a complete document with entries
\* is never left emptied or partly written, whatever happens during a save.
C11_AtomicSave ==
    [][ (~torn /\ file # <<>>) => ~torn' ]_vars

\* C12 (as claimed): whenever process is invoked, the priority list it ranks by
\* is the list the user gave, or <<4, 3, 2, 1>> when the user gave none.
C12_UsesSuppliedPriority ==
    invoked =>
        IF priority_text = <<>>
        THEN category_priority = <<4, 3, 2, 1>>
        ELSE /\ Len(category_priority) = Len(priority_text)
             /\ \A i \in 1..Len(priority_text) :
                   category_priority[i] = int(priority_text[i])

\* rows of one block that tie in rank and in distance (or both lack a distance)
\* are in the order of their index labels, which is the spreadsheet's order
TiesInInputOrder(block) ==
    \A i, j \in 1..Len(block) :
        (/\ i < j
         /\ Rank(block[i].Category) = Rank(block[j].Category)
         /\ block[i].Distance_km = block[j].Distance_km)
            => block[i].idx < block[j].idx

\* C13: in each block, two rows of equal priority rank and equal distance, or
\* both without a distance, keep the relative order they had in the spreadsheet.
C13_StableRanking ==
    /\ TiesInInputOrder(df_valid_sorted)
    /\ TiesInInputOrder(df_missing_sorted)
    /\ Finished =>
          \A k \in 1..Len(final_df) :
              final_df[k] = strip((df_valid_sorted \o df_missing_sorted)[k])

\* C13 witness: the first block of the output holds two rows of different
\* schools that tie in rank and in distance.
C13_Witness ==
    /\ Finished
    /\ Len(df_valid_sorted) = 2
    /\ df_valid_sorted[1].Category = df_valid_sorted[2].Category
    /\ df_valid_sorted[1].Distance_km = df_valid_sorted[2].Distance_km
    /\ df_valid_sorted[1].School # df_valid_sorted[2].School

\* the rows of final_df from position a to position b
OutputBlock(a, b) == SubSeq(final_df, a, b)

\* C14: each block of the output table, ranked again by the same priority list
\* and sorted again, comes out in the order it already has.
C14_RankingIdempotent ==
    Finished =>
        LET nv == Len(df_valid_sorted)
            first == OutputBlock(1, nv)
            second == OutputBlock(nv + 1, Len(final_df))
        IN  /\ ~apply_raises(final_df, category_priority)
            /\ sort_values(first, category_priority) = first
            /\ sort_values(second, category_priority) = second

\* C14 witness: the first block of the output holds two rows that the sort has
\* exchanged.
C14_Witness ==
    /\ Finished
    /\ Len(df_valid_sorted) = 2
    /\ df_valid_sorted[1].idx > df_valid_sorted[2].idx

\* the resolves of this run made at one position of the script, in their order
AttemptsAt(position) == SelectSeq(attempts, LAMBDA a : a.at = position)

FullAttempts == AttemptsAt("full_loop")

MandalAttempts == AttemptsAt("mandal_loop")

\* the positions in the spreadsheet of the rows whose full-address resolve found
\* nothing
NotFound == { i \in 1..Len(FullAttempts) : FullAttempts[i].outcome = "failed" }

\* C15: no Mandal resolve is made before the full address of every row has been
\* resolved, and the Mandal resolves are those of the rows whose full-address
\* resolve found nothing, one each, in the order of the spreadsheet; a run that
\* returns a table has made every one of them.
C15_TwoPasses ==
    /\ SelectSeq(attempts, LAMBDA a : a.at # "ui_geocode")
          = FullAttempts \o MandalAttempts
    /\ MandalAttempts # <<>> => Len(FullAttempts) = Len(rows)
    /\ Len(FullAttempts) <= Len(rows)
    /\ \A i \in 1..Len(FullAttempts) :
          FullAttempts[i].address = full_address(rows[i])
    /\ Len(MandalAttempts) <= Cardinality(NotFound)
    /\ \A k \in 1..Len(MandalAttempts) :
          \E i \in NotFound :
              /\ Cardinality({ j \in NotFound : j < i }) = k - 1
              /\ MandalAttempts[k].address = mandal_address(rows[i])
    /\ Finished => Len(MandalAttempts) = Cardinality(NotFound)

\* C15 witness: a run is over in which the first row's full address was found,
\* the second row's was not, and the one Mandal resolve was the second row's.
C15_Witness ==
    /\ Finished
    /\ Len(rows) = 2
    /\ rows[1].Mandal # rows[2].Mandal
    /\ NotFound = {2}
    /\ Len(MandalAttempts) = 1
    /\ MandalAttempts[1].address = mandal_address(rows[2])

\* how many rows of a table are of this school, Mandal and category
Copies(table, r) ==
    Cardinality({ k \in 1..Len(table) :
                    /\ table[k].School = r.School
                    /\ table[k].Mandal = r.Mandal
                    /\ table[k].Category = r.Category })

MandalCalls == SelectSeq(MandalAttempts, LAMBDA a : a.outcome # "hit")

\* C17 (as claimed): in one run the service is asked at most once for a Mandal
\* address, whether it finds the address or not.
C17_OneCallPerMandal ==
    \A i, j \in 1..Len(MandalCalls) :
        i < j => MandalCalls[i].address # MandalCalls[j].address

\* C17 (amended): once a Mandal address has been found or taken from the cache,
\* every later Mandal resolve of that address in the run is answered from the
\* cache; only a lookup that found nothing is made again, once for each further
\* row of that Mandal.
C17_OneCallPerFoundMandal ==
    \A i, j \in 1..Len(MandalAttempts) :
        (/\ i < j
         /\ MandalAttempts[i].address = MandalAttempts[j].address
         /\ MandalAttempts[i].outcome # "failed")
            => MandalAttempts[j].outcome = "hit"

\* C17 witness: two rows of one Mandal are in the second pass; the lookup for
\* the first found the Mandal and the second was answered from the cache.
C17_Witness ==
    /\ Len(MandalAttempts) = 2
    /\ MandalAttempts[1].address = MandalAttempts[2].address
    /\ MandalAttempts[1].outcome = "found"
    /\ MandalAttempts[2].outcome = "hit"

\* every entry of cache c is an entry of cache d, with the same coordinates
Extends(d, c) == \A a \in DOMAIN c : a \in DOMAIN d /\ d[a] = c[a]

\* C18: while a run lasts no entry leaves either in-memory cache and none gets
\* other coordinates; the cache process starts from holds every entry of the
\* cache file as it is then, and the file a completed write leaves holds every
\* entry of the cache of process, so every entry of the file that was loaded.
C18_CacheOnlyGrows ==
    [][ /\ pc \notin {"done", "crashed"}
            => Extends(cache', cache) /\ Extends(uiCache', uiCache)
        /\ pc = "process" /\ pc' = "full_loop"
            => Extends(cache', file) /\ file' = file
        /\ pc \in {"full_loop", "full_sleep"} /\ pc' \in {"full_loop", "full_sleep"}
            => file' = file
        /\ torn /\ ~torn'
            => Extends(file', cache) ]_vars

\* C18 witness: process has written the cache file; it holds an entry that was
\* loaded from the file and an entry that this run has added.
C18_Witness ==
    /\ pc = "rank_valid"
    /\ ~torn
    /\ \E a, b \in DOMAIN file :
          /\ \A k \in 1..Len(calls) : calls[k] # a
          /\ \E k \in 1..Len(calls) : calls[k] = b

====
